---- MODULE Spec2Model ----
(***************************************************************************)
(* Model of the circuit breaker of breaker.go: the breaker's fields, the   *)
(* Execute calls under way and the recover goroutines started by           *)
(* handleError.  The fields state and consecutiveErrors are read and       *)
(* written without any lock, so a step holds at most one access to each    *)
(* shared field followed or preceded by work on locals; callers and        *)
(* goroutines are interchangeable and kept as bags of their locals.        *)
(***************************************************************************)
EXTENDS Integers, Sequences, FiniteSets, Bags, TLC

(* ------------------------------ bounds --------------------------------- *)
NumCallers == 2
MaxCalls == 3
MaxThreshold == 2
MaxRetryMax == 1

(* --------------------------- program constants ------------------------- *)
Closed == 1
HalfOpen == 2
Open == 3

defaultErrorThreshold == 5
defaultRetryInterval == 5
defaultRetryMax == 5

Nil == "nil"
ErrRecovering == "circuit half open. trying to recover"

(* Mutant: the message leaves out the breaker's name. *)
OpenMessageUnnamed(n) == "circuit breaker open"

OpenMessage(n) == n \o " circuit breaker open"

(* The outcomes of the wrapped functions used with the breaker. *)
Happy == [res |-> "yay", err |-> Nil]
Failed == [res |-> Nil, err |-> "i like to fail"]
Partial == [res |-> "partial", err |-> "timed out"]

(* errFunc fails on every invocation; testFunc's outcome may differ from   *)
(* one invocation to the next.                                             *)
Funcs == {"errFunc", "testFunc"}

F(f) == IF f = "errFunc" THEN {Failed} ELSE {Happy, Failed, Partial}

(* Mutant: a field of 0 is kept. *)
NewCircuitBreakerKeepsZero(s) ==
    [Threshold |-> IF s.Threshold < 0 THEN defaultErrorThreshold ELSE s.Threshold,
     RetryInterval |-> IF s.RetryInterval < 0 THEN defaultRetryInterval ELSE s.RetryInterval,
     RetryMax |-> IF s.RetryMax < 0 THEN defaultRetryMax ELSE s.RetryMax]

NewCircuitBreaker(s) ==
    [Threshold |-> IF s.Threshold <= 0 THEN defaultErrorThreshold ELSE s.Threshold,
     RetryInterval |-> IF s.RetryInterval <= 0 THEN defaultRetryInterval ELSE s.RetryInterval,
     RetryMax |-> IF s.RetryMax <= 0 THEN defaultRetryMax ELSE s.RetryMax]

VARIABLES name, strategy, state, consecutiveErrors, executing, recovering,
          op, ncallers, calls, returned, curRun, recovered

vars == <<name, strategy, state, consecutiveErrors, executing, recovering,
          op, ncallers, calls, returned, curRun, recovered>>

NoResult == [res |-> Nil, err |-> Nil]

(* The locals of an Execute call that has read Closed in the switch. *)
NewCall == [pc |-> "call", res |-> Nil, err |-> Nil, tmp |-> 0, invoked |-> 0]

(* The locals of a recover goroutine that has just been started. *)
NewProbe == [pc |-> "guard", retries |-> 0, invoked |-> 0]

Init ==
    /\ name = "test"
    /\ \E t \in 1..MaxThreshold, r \in 1..MaxRetryMax :
          strategy = NewCircuitBreaker([Threshold |-> t, RetryInterval |-> 1, RetryMax |-> r])
    /\ state = Closed
    /\ consecutiveErrors = 0
    /\ executing = EmptyBag
    /\ recovering = EmptyBag
    /\ op \in Funcs
    /\ ncallers \in 1..NumCallers
    /\ calls = 0
    /\ returned = [res |-> Nil, err |-> Nil, invoked |-> 0]
    /\ curRun = 0
    /\ recovered = FALSE

One(r) == SetToBag({r})

(* Execute returns r after n invocations of f; curRun is the length of the *)
(* current run of Execute calls that returned an error.                    *)
Return(r, n) ==
    /\ returned' = [res |-> r.res, err |-> r.err, invoked |-> n]
    /\ curRun' = IF r.err # Nil THEN curRun + 1 ELSE 0

(* A caller that is not inside Execute calls it. *)
Enter ==
    /\ BagCardinality(executing) < ncallers
    /\ calls < MaxCalls
    /\ calls' = calls + 1

(* Execute, case Closed: the switch reads c.state. *)
ExecuteClosed ==
    /\ Enter
    /\ state = Closed
    /\ executing' = executing (+) One(NewCall)
    /\ UNCHANGED <<name, strategy, state, consecutiveErrors, recovering, op, ncallers,
                   returned, curRun, recovered>>

HalfOpenResult == [res |-> Nil, err |-> ErrRecovering]

(* Mutant: the HalfOpen case falls through to the return f() of Execute. *)
ExecuteHalfOpenFallsThrough ==
    /\ Enter
    /\ state = HalfOpen
    /\ executing' = executing (+) One([NewCall EXCEPT !.pc = "ret_f"])
    /\ UNCHANGED <<name, strategy, state, consecutiveErrors, recovering, op, ncallers,
                   returned, curRun, recovered>>

(* Execute, case HalfOpen. *)
ExecuteHalfOpen ==
    /\ Enter
    /\ state = HalfOpen
    /\ Return(HalfOpenResult, 0)
    /\ UNCHANGED <<name, strategy, state, consecutiveErrors, executing, recovering, op,
                   ncallers, recovered>>

OpenResult(n) == [res |-> Nil, err |-> OpenMessage(n)]

(* Execute, case Open. *)
ExecuteOpen ==
    /\ Enter
    /\ state = Open
    /\ Return(OpenResult(name), 0)
    /\ UNCHANGED <<name, strategy, state, consecutiveErrors, executing, recovering, op,
                   ncallers, recovered>>

(* Mutant: handleSuccess leaves the counter as it is. *)
HandleSuccessKeepsCount == UNCHANGED consecutiveErrors

(* handleSuccess: c.consecutiveErrors = 0 *)
HandleSuccess == consecutiveErrors' = 0

(* res, err := f() in the Closed case.  On an error handleError starts     *)
(* c.consecutiveErrors++ by reading the field; otherwise handleSuccess     *)
(* runs and the switch is left.                                            *)
ExecuteCall(a) ==
    /\ a.pc = "call"
    /\ \E o \in F(op) :
          LET b == [a EXCEPT !.res = o.res, !.err = o.err, !.invoked = @ + 1]
          IN  IF o.err # Nil
              THEN /\ executing' = (executing (-) One(a)) (+)
                                   One([b EXCEPT !.pc = "inc_write", !.tmp = consecutiveErrors])
                   /\ UNCHANGED consecutiveErrors
              ELSE /\ executing' = (executing (-) One(a)) (+) One([b EXCEPT !.pc = "ret_f"])
                   /\ HandleSuccess
    /\ UNCHANGED <<name, strategy, state, recovering, op, ncallers, calls,
                   returned, curRun, recovered>>

(* handleError: c.consecutiveErrors++ ends by writing the field. *)
HandleErrorWrite(a) ==
    /\ a.pc = "inc_write"
    /\ consecutiveErrors' = a.tmp + 1
    /\ executing' = (executing (-) One(a)) (+) One([a EXCEPT !.pc = "check", !.tmp = 0])
    /\ UNCHANGED <<name, strategy, state, recovering, op, ncallers, calls,
                   returned, curRun, recovered>>

(* Mutant: the breaker trips as soon as the threshold is reached. *)
ExceededAtThreshold(n, threshold) == n >= threshold

Exceeded(n, threshold) == n > threshold

(* Mutant: the result of the failed invocation is dropped. *)
ErrorResultDropsRes(a) == [res |-> Nil, err |-> a.err]

(* What Execute returns after handleError: return res, err. *)
ErrorResult(a) == [res |-> a.res, err |-> a.err]

(* handleError: if c.consecutiveErrors > c.strategy.Threshold               *)
(* { c.state = HalfOpen ... }; below the threshold handleError returns and  *)
(* Execute returns res, err.                                                *)
HandleErrorCheck(a) ==
    /\ a.pc = "check"
    /\ IF Exceeded(consecutiveErrors, strategy.Threshold)
       THEN /\ state' = HalfOpen
            /\ executing' = (executing (-) One(a)) (+) One([a EXCEPT !.pc = "go"])
            /\ UNCHANGED <<returned, curRun>>
       ELSE /\ Return(ErrorResult(a), a.invoked)
            /\ executing' = executing (-) One(a)
            /\ UNCHANGED state
    /\ UNCHANGED <<name, strategy, consecutiveErrors, recovering, op, ncallers, calls,
                   recovered>>

(* Mutant: the call that starts recover returns the HalfOpen error. *)
HandleErrorGoRecovering(a) ==
    /\ a.pc = "go"
    /\ recovering' = recovering (+) One(NewProbe)
    /\ Return(HalfOpenResult, a.invoked)
    /\ executing' = executing (-) One(a)
    /\ UNCHANGED <<name, strategy, state, consecutiveErrors, op, ncallers, calls, recovered>>

(* handleError: go c.recover(f); then Execute returns res, err. *)
HandleErrorGo(a) ==
    /\ a.pc = "go"
    /\ recovering' = recovering (+) One(NewProbe)
    /\ Return(ErrorResult(a), a.invoked)
    /\ executing' = executing (-) One(a)
    /\ UNCHANGED <<name, strategy, state, consecutiveErrors, op, ncallers, calls, recovered>>

(* Execute: the return f() after the switch invokes f once more. *)
ExecuteReturnF(a) ==
    /\ a.pc = "ret_f"
    /\ \E o \in F(op) : Return(o, a.invoked + 1)
    /\ executing' = executing (-) One(a)
    /\ UNCHANGED <<name, strategy, state, consecutiveErrors, recovering, op, ncallers, calls,
                   recovered>>

(* Mutant: the loop guard compares with the wrong state. *)
RecoverGuardClosed(p) ==
    /\ p.pc = "guard"
    /\ recovering' = IF state = Closed
                     THEN (recovering (-) One(p)) (+) One([p EXCEPT !.pc = "attempt"])
                     ELSE recovering (-) One(p)
    /\ UNCHANGED <<name, strategy, state, consecutiveErrors, executing, op, ncallers, calls,
                   returned, curRun, recovered>>

(* recover: the loop guard c.state == HalfOpen; the goroutine returns when *)
(* it does not hold.                                                       *)
RecoverGuard(p) ==
    /\ p.pc = "guard"
    /\ recovering' = IF state = HalfOpen
                     THEN (recovering (-) One(p)) (+) One([p EXCEPT !.pc = "attempt"])
                     ELSE recovering (-) One(p)
    /\ UNCHANGED <<name, strategy, state, consecutiveErrors, executing, op, ncallers, calls,
                   returned, curRun, recovered>>

(* Mutant: recover gives up once retries reaches RetryMax. *)
GivesUpAtRetryMax(retries, retryMax) == retries >= retryMax

GivesUp(retries, retryMax) == retries > retryMax

(* Mutant: retries counts the failed attempts only. *)
RetriedOnFailure(p, o) ==
    [p EXCEPT !.pc = "guard", !.invoked = @ + 1,
              !.retries = IF o.err # Nil THEN @ + 1 ELSE @]

(* recover: the locals after _, err := f() and retries++. *)
Retried(p, o) == [p EXCEPT !.pc = "guard", !.invoked = @ + 1, !.retries = @ + 1]

(* Mutant: a successful attempt does not close the breaker. *)
StateAfterKept(o) == state

(* recover: if err == nil { c.state = Closed } *)
StateAfter(o) == IF o.err = Nil THEN Closed ELSE state

(* Mutant: the goroutine returns after a failed attempt and leaves the     *)
(* state as it is.                                                         *)
RecoverAttemptReturnsOnError(p) ==
    /\ p.pc = "attempt"
    /\ IF GivesUp(p.retries, strategy.RetryMax)
       THEN /\ state' = Open
            /\ recovering' = recovering (-) One(p)
            /\ UNCHANGED recovered
       ELSE \E o \in F(op) :
               /\ state' = StateAfter(o)
               /\ recovered' = (recovered \/ o.err = Nil)
               /\ recovering' = IF o.err = Nil
                                 THEN (recovering (-) One(p)) (+) One(Retried(p, o))
                                 ELSE recovering (-) One(p)
    /\ UNCHANGED <<name, strategy, consecutiveErrors, executing, op, ncallers, calls,
                   returned, curRun>>

(* recover, inside the loop: if retries > c.strategy.RetryMax               *)
(* { c.state = Open; return }; time.Sleep(...); _, err := f();              *)
(* if err == nil { c.state = Closed }; retries++                            *)
RecoverAttempt(p) ==
    /\ p.pc = "attempt"
    /\ IF GivesUp(p.retries, strategy.RetryMax)
       THEN /\ state' = Open
            /\ recovering' = recovering (-) One(p)
            /\ UNCHANGED recovered
       ELSE \E o \in F(op) :
               /\ state' = StateAfter(o)
               /\ recovered' = (recovered \/ o.err = Nil)
               /\ recovering' = (recovering (-) One(p)) (+) One(Retried(p, o))
    /\ UNCHANGED <<name, strategy, consecutiveErrors, executing, op, ncallers, calls,
                   returned, curRun>>

(* The steps of an Execute call that is under way. *)
Running(a) ==
    \/ ExecuteCall(a)
    \/ HandleErrorWrite(a)
    \/ HandleErrorCheck(a)
    \/ HandleErrorGo(a)
    \/ ExecuteReturnF(a)

ProbeStep(p) ==
    \/ RecoverGuard(p)
    \/ RecoverAttempt(p)

Executing == \E a \in BagToSet(executing) : Running(a)

Recovering == \E p \in BagToSet(recovering) : ProbeStep(p)

Next ==
    \/ ExecuteClosed
    \/ ExecuteHalfOpen
    \/ ExecuteOpen
    \/ Executing
    \/ Recovering

Spec == Init /\ [][Next]_vars

(* The Go scheduler keeps running the goroutines that can run, and every   *)
(* f() returns: Execute calls under way and recover goroutines proceed.    *)
(* Nothing obliges a caller to call Execute again.                         *)
FairSpec == Spec /\ WF_vars(Executing) /\ WF_vars(Recovering)

(* ----------------------- NewCircuitBreaker alone ----------------------- *)
(* The Strategy fields given to NewCircuitBreaker range over               *)
(* -MaxDefaulted..MaxThreshold, negative values and 0 included.            *)
MaxDefaulted == 2

(* The state field before a breaker has been constructed. *)
Unbuilt == 0

Given == (0 - MaxDefaulted)..MaxThreshold

(* The caller's Strategy before the call of NewCircuitBreaker. *)
InitNew ==
    /\ name = "test"
    /\ strategy \in [Threshold : Given, RetryInterval : Given, RetryMax : Given]
    /\ state = Unbuilt
    /\ consecutiveErrors = 0
    /\ executing = EmptyBag
    /\ recovering = EmptyBag
    /\ op \in Funcs
    /\ ncallers = 1
    /\ calls = 0
    /\ returned = [res |-> Nil, err |-> Nil, invoked |-> 0]
    /\ curRun = 0
    /\ recovered = FALSE

(* NewCircuitBreaker(name, strategy): the defaults are written into the    *)
(* caller's Strategy and the breaker starts Closed with no errors.         *)
Construct ==
    /\ state = Unbuilt
    /\ strategy' = NewCircuitBreaker(strategy)
    /\ state' = Closed
    /\ consecutiveErrors' = 0
    /\ UNCHANGED <<name, executing, recovering, op, ncallers, calls, returned, curRun,
                   recovered>>

NextNew == Construct

SpecNew == InitNew /\ [][NextNew]_vars

(* ------------------------------ claims --------------------------------- *)
Threshold == strategy.Threshold
RetryMax == strategy.RetryMax

(* A single caller with a function that fails on every invocation. *)
SingleErrFunc == ncallers = 1 /\ op = "errFunc"

(* The Execute call with locals a takes a step. *)
Ran(a) == CopiesIn(a, executing') < CopiesIn(a, executing)

(* The Execute call with locals a returns in this step. *)
Returns(a) == Ran(a) /\ BagCardinality(executing') < BagCardinality(executing)

(* An Execute call starts in this step; Rejected: and returns at once. *)
Starts == calls' = calls + 1
Rejected == Starts /\ executing' = executing

(* The recover goroutine with locals p takes a step. *)
ProbeRan(p) == CopiesIn(p, recovering') < CopiesIn(p, recovering)

Calls == BagToSet(executing)
Probes == BagToSet(recovering)

(* C1: with a single caller and a function that always fails, the state is *)
(* Closed after each of the first Threshold Execute calls; the state       *)
(* leaves Closed only in call Threshold+1, when consecutiveErrors is       *)
(* Threshold+1, and becomes HalfOpen; when that call returns the state is  *)
(* HalfOpen and exactly one fresh recover goroutine has been started.      *)
C1_TripsAtThresholdPlusOne ==
    [][SingleErrFunc =>
          /\ (executing' = EmptyBag /\ calls' <= Threshold) => state' = Closed
          /\ (state = Closed /\ state' # Closed) =>
                /\ calls = Threshold + 1
                /\ consecutiveErrors = Threshold + 1
                /\ state' = HalfOpen
          /\ BagCardinality(recovering') > BagCardinality(recovering) =>
                calls = Threshold + 1
          /\ ((\E a \in Calls : Returns(a)) /\ calls = Threshold + 1) =>
                /\ state' = HalfOpen
                /\ recovering' = One(NewProbe)]_vars

C1_Witness ==
    /\ SingleErrFunc
    /\ Threshold = 2
    /\ calls = 3
    /\ executing = EmptyBag
    /\ state = HalfOpen
    /\ recovering = One(NewProbe)

(* C2: an Execute call that observes HalfOpen returns a nil result with    *)
(* the error "circuit half open. trying to recover", does not invoke the   *)
(* function and leaves state and consecutiveErrors as they were.           *)
C2_HalfOpenRejects ==
    [][(state = HalfOpen /\ Starts) =>
          /\ Rejected
          /\ returned' = [res |-> Nil, err |-> "circuit half open. trying to recover",
                          invoked |-> 0]
          /\ state' = state
          /\ consecutiveErrors' = consecutiveErrors
          /\ recovering' = recovering]_vars

C2_Witness ==
    /\ returned.err = "circuit half open. trying to recover"
    /\ state = HalfOpen

(* C3: an Execute call that observes Open returns a nil result with the    *)
(* error "<name> circuit breaker open", does not invoke the function and   *)
(* leaves state and consecutiveErrors as they were.                        *)
C3_OpenRejects ==
    [][(state = Open /\ Starts) =>
          /\ Rejected
          /\ returned' = [res |-> Nil, err |-> name \o " circuit breaker open",
                          invoked |-> 0]
          /\ state' = state
          /\ consecutiveErrors' = consecutiveErrors
          /\ recovering' = recovering]_vars

C3_Witness ==
    /\ returned = [res |-> Nil, err |-> "test circuit breaker open", invoked |-> 0]
    /\ state = Open

(* C4: with a single caller on a breaker that has never tripped, an        *)
(* invocation that succeeds in the Closed case sets consecutiveErrors to   *)
(* 0, an Execute that returns a nil error leaves it 0, and the state       *)
(* leaves Closed only in a call that fails after Threshold calls in a row  *)
(* have returned an error: without an unbroken run of Threshold+1 failing  *)
(* calls the state is Closed after every call.                             *)
C4_SuccessBreaksTheRun ==
    [][(ncallers = 1 /\ ~recovered /\ recovering = EmptyBag /\ state = Closed) =>
          /\ \A a \in Calls :
                /\ (a.pc = "call" /\ Ran(a) /\ (\E b \in BagToSet(executing') : b.pc = "ret_f"))
                      => consecutiveErrors' = 0
                /\ (Returns(a) /\ returned'.err = Nil) => consecutiveErrors' = 0
                /\ (Returns(a) /\ curRun' <= Threshold) => state' = Closed
          /\ state' # Closed =>
                (curRun >= Threshold /\ \A a \in Calls : a.err # Nil)]_vars

C4_Witness ==
    /\ ncallers = 1
    /\ op = "testFunc"
    /\ Threshold = 1
    /\ calls = 3
    /\ executing = EmptyBag
    /\ returned.err # Nil
    /\ curRun = 1
    /\ consecutiveErrors = 1
    /\ recovering = EmptyBag
    /\ ~recovered
    /\ state = Closed

(* C5: an Execute call that observed Closed and whose invocation of the    *)
(* function failed returns the result and the error of that invocation,    *)
(* whether it returns after the threshold check or after starting recover. *)
C5_ErrorPassedThrough ==
    [][\A a \in Calls : (a.pc \in {"check", "go"} /\ Returns(a)) =>
          /\ a.err # Nil
          /\ [res |-> returned'.res, err |-> returned'.err] \in F(op)
          /\ returned'.res = a.res
          /\ returned'.err = a.err
          /\ returned'.invoked = 1]_vars

C5_Witness ==
    /\ ncallers = 1
    /\ calls = Threshold + 1
    /\ executing = EmptyBag
    /\ returned = [res |-> "partial", err |-> "timed out", invoked |-> 1]
    /\ recovering = One(NewProbe)

(* C6, as claimed: the Execute call that sets HalfOpen returns the error   *)
(* "circuit half open. trying to recover".                                 *)
C6_TrippingCallReturnsRecovering ==
    [][\A a \in Calls : (a.pc = "go" /\ Returns(a)) => returned'.err = ErrRecovering]_vars

(* C6, amended: the Execute call that sets HalfOpen returns the error of   *)
(* the function, which is not the error of the HalfOpen case; that error   *)
(* is returned only by a call that starts while the state is HalfOpen.     *)
C6_TrippingCallReturnsOperationError ==
    [][/\ \A a \in Calls : (a.pc = "go" /\ Returns(a)) =>
             /\ returned'.err \in {o.err : o \in F(op)} \ {Nil}
             /\ returned'.err # ErrRecovering
       /\ (returned' # returned /\ returned'.err = ErrRecovering) =>
             (Rejected /\ state = HalfOpen)]_vars

C6_Witness ==
    /\ ncallers = 1
    /\ calls = Threshold + 1
    /\ executing = EmptyBag
    /\ returned.err = "i like to fail"
    /\ state = HalfOpen
    /\ recovering = One(NewProbe)

(* C7: an Execute call that observed Closed and whose invocation of the    *)
(* function succeeded returns the result of that invocation with a nil     *)
(* error.                                                                  *)
C7_SuccessResultReturned ==
    [][\A a \in Calls : (a.pc = "ret_f" /\ Returns(a)) =>
          (returned'.res = a.res /\ returned'.err = Nil)]_vars

(* C8, as claimed: when every attempt fails, the recover goroutine that    *)
(* sets Open has invoked the function RetryMax times.                      *)
C8_OpenAfterRetryMaxAttempts ==
    [][\A p \in Probes :
          (op = "errFunc" /\ p.pc = "attempt" /\ ProbeRan(p) /\ state' = Open) =>
              p.invoked = RetryMax]_vars

(* C8, amended: the recover goroutine that sets Open has invoked the       *)
(* function RetryMax+1 times; before that an attempt invokes the function  *)
(* once more and goes back to the loop guard.                              *)
C8_OpenAfterRetryMaxPlusOneAttempts ==
    [][\A p \in Probes : (p.pc = "attempt" /\ ProbeRan(p)) =>
          \/ /\ BagCardinality(recovering') < BagCardinality(recovering)
             /\ state' = Open
             /\ p.invoked = RetryMax + 1
          \/ /\ BagIn([p EXCEPT !.pc = "guard", !.invoked = @ + 1, !.retries = @ + 1],
                      recovering')
             /\ state' \in {state, Closed}
             /\ p.invoked <= RetryMax]_vars

C8_Witness ==
    /\ op = "errFunc"
    /\ state = Open
    /\ recovering = EmptyBag

(* C9: with a single caller and a function that always fails, a HalfOpen   *)
(* breaker eventually becomes Open; it then stays Open and every Execute   *)
(* call started after that returns the error of the Open case.             *)
C9_FailingRecoveryOpens ==
    /\ (SingleErrFunc /\ state = HalfOpen) ~> (state = Open)
    /\ [][(SingleErrFunc /\ state = Open) =>
             /\ state' = Open
             /\ Starts => (Rejected /\ returned'.err = OpenMessage(name))]_vars

C9_Witness ==
    /\ SingleErrFunc
    /\ state = Open
    /\ executing = EmptyBag
    /\ returned.err = "test circuit breaker open"

(* C10: a recover goroutine whose invocation succeeds sets the state to    *)
(* Closed; an Execute call that starts once the breaker is Closed again    *)
(* goes on to invoke the function, and a call that invokes the function    *)
(* returns an outcome of the function, not an error of the breaker.        *)
C10_RecoveryCloses ==
    [][/\ (recovered' /\ ~recovered) => (state' = Closed /\ \E p \in Probes : ProbeRan(p))
       /\ (\E p \in Probes : ProbeRan(p) /\ state' # state /\ state' # Open) =>
             (state' = Closed /\ recovered')
       /\ (recovered /\ state = Closed /\ Starts) =>
             executing' = executing (+) One(NewCall)
       /\ \A a \in Calls : (recovered /\ Returns(a)) =>
             /\ [res |-> returned'.res, err |-> returned'.err] \in F(op)
             /\ returned'.invoked >= 1]_vars

C10_Witness ==
    /\ ncallers = 1
    /\ recovered
    /\ state = Closed
    /\ executing = EmptyBag
    /\ returned.res = "yay"
    /\ returned.err = Nil
    /\ returned.invoked >= 1

(* C11: once the state is Open it stays Open, whatever step an Execute     *)
(* call or a recover goroutine takes.                                      *)
C11_OpenIsTerminal == [][state = Open => state' = Open]_vars

(* C12: at every moment at most one recover goroutine is running.          *)
C12_AtMostOneProbe == BagCardinality(recovering) <= 1

(* C13: no invocation of the function made inside an Execute call, the     *)
(* one of the Closed case or the one of return f(), begins while the state *)
(* is HalfOpen.                                                            *)
C13_NoInvocationWhileHalfOpen ==
    [][\A a \in Calls : (a.pc \in {"call", "ret_f"} /\ Ran(a)) => state # HalfOpen]_vars

(* C14: NewCircuitBreaker replaces each of Threshold, RetryInterval and    *)
(* RetryMax that is <= 0 by 5 and keeps each positive value, field by      *)
(* field; the breaker it returns is Closed with consecutiveErrors 0.       *)
C14_DefaultsApplied ==
    [][state = Unbuilt =>
          /\ strategy'.Threshold = IF strategy.Threshold <= 0 THEN 5 ELSE strategy.Threshold
          /\ strategy'.RetryInterval =
                IF strategy.RetryInterval <= 0 THEN 5 ELSE strategy.RetryInterval
          /\ strategy'.RetryMax = IF strategy.RetryMax <= 0 THEN 5 ELSE strategy.RetryMax
          /\ state' = Closed
          /\ consecutiveErrors' = 0]_vars

C14_Witness ==
    /\ state = Closed
    /\ consecutiveErrors = 0
    /\ strategy = [Threshold |-> 5, RetryInterval |-> 1, RetryMax |-> 5]

(* C15: every change of state is Closed->HalfOpen made by an Execute call, *)
(* HalfOpen->Closed made by a recover goroutine or HalfOpen->Open made by  *)
(* a recover goroutine.                                                    *)
C15_OnlyThreeTransitions ==
    [][state' # state =>
          \/ state = Closed /\ state' = HalfOpen /\ \E a \in Calls : Ran(a)
          \/ state = HalfOpen /\ state' = Closed /\ \E p \in Probes : ProbeRan(p)
          \/ state = HalfOpen /\ state' = Open /\ \E p \in Probes : ProbeRan(p)]_vars

(* C16: every recover goroutine ends when the invocations of the function  *)
(* return: a goroutine invokes the function at most RetryMax+1 times; it   *)
(* returns either in the step that sets the state to Open or at a loop     *)
(* guard that reads a state other than HalfOpen, and such a guard always   *)
(* ends it; no goroutine runs for ever.                                    *)
C16_ProbeTerminates ==
    /\ [](\A p \in Probes : p.invoked <= RetryMax + 1)
    /\ [][\A p \in Probes :
             /\ (ProbeRan(p) /\ BagCardinality(recovering') < BagCardinality(recovering)) =>
                   \/ p.pc = "attempt" /\ state' = Open
                   \/ p.pc = "guard" /\ state # HalfOpen /\ state' = state
             /\ (ProbeRan(p) /\ p.pc = "guard" /\ state # HalfOpen) =>
                   recovering' = recovering (-) One(p)]_vars
    /\ (recovering # EmptyBag) ~> (recovering = EmptyBag)

C16_Witness ==
    /\ ncallers = 2
    /\ BagCardinality(recovering) = 2
    /\ state = Closed
    /\ \E p \in Probes : p.pc = "guard" /\ p.invoked = RetryMax + 1

(* C17: an Execute call invokes the function exactly once when it read     *)
(* Closed in the switch and not at all when it read HalfOpen or Open.      *)
C17_InvokesAtMostOnce ==
    [][/\ \A a \in Calls : Returns(a) => returned'.invoked = 1
       /\ Rejected => returned'.invoked = 0]_vars

(* C18: whenever the state is Closed and no Execute call is under way,     *)
(* consecutiveErrors is at most Threshold, also after a recover goroutine  *)
(* has set the state back to Closed.                                       *)
C18_ClosedWithinThreshold ==
    (state = Closed /\ executing = EmptyBag) => consecutiveErrors <= Threshold

(* C19: whenever the state is HalfOpen, a recover goroutine is running or  *)
(* the Execute call that has set HalfOpen is about to start one.           *)
C19_HalfOpenHasProbe ==
    state = HalfOpen => (recovering # EmptyBag \/ \E a \in Calls : a.pc = "go")

C19_Witness ==
    /\ ncallers = 2
    /\ state = HalfOpen
    /\ recovering = EmptyBag
    /\ recovered
    /\ \E a \in Calls : a.pc = "go"

(* C20: with a function that always fails, once every Execute call has     *)
(* returned and the state is still Closed, consecutiveErrors equals the    *)
(* number of Execute calls made: no increment is lost when calls overlap.  *)
C20_NoLostIncrement ==
    (op = "errFunc" /\ state = Closed /\ executing = EmptyBag) => consecutiveErrors = calls
====
